---- MODULE Spec2Model ----
(***************************************************************************)
(* Model of the request handlers of the relay server (routes in            *)
(* src/unnamed/part_000) and of the two services they call                 *)
(* (googleBooksService and openaiService, src/server.js lines 175-475).    *)
(*                                                                         *)
(* Text is modelled as a sequence of lexical tokens: brackets, braces,     *)
(* commas, JSON scalars, whole "key":value members and prose words.  The   *)
(* regular expression of the extractor and JSON.parse are computed on      *)
(* these sequences.  Brackets inside string literals are not modelled.     *)
(***************************************************************************)
EXTENDS Integers, Sequences, FiniteSets, TLC

\* ------------------------------------------------------------------------
\* Bounds of the model
\* ------------------------------------------------------------------------
MaxItems == 2      \* elements of a generated JSON array
MaxMembers == 2    \* members of a generated JSON object
MaxRaw == 3        \* tokens of a free-form reply
MaxExtra == 2      \* characters of a description beyond the truncation limit

\* ------------------------------------------------------------------------
\* JavaScript values
\* ------------------------------------------------------------------------
Str(s) == [kind |-> "string", v |-> s]
Num(s) == [kind |-> "number", v |-> s]
Null == [kind |-> "null", v |-> ""]
Undefined == [kind |-> "undefined", v |-> ""]
Arr(items) == [kind |-> "array", v |-> "", items |-> items]
Obj(fields) == [kind |-> "object", v |-> "", fields |-> fields]

\* ToBoolean of a value
Truthy(x) ==
    CASE x.kind = "string" -> x.v # ""
      [] x.kind = "number" -> x.v # "0"
      [] x.kind \in {"array", "object"} -> TRUE
      [] OTHER -> FALSE

\* a || b
Or(a, b) == IF Truthy(a) THEN a ELSE b

\* Array.isArray(x)
IsArray(x) == x.kind = "array"

\* typeof x === 'object' (null, arrays and objects)
TypeofObject(x) == x.kind \in {"null", "array", "object"}

\* x.key for a value that is not null or undefined
Get(x, key) ==
    IF x.kind = "object" /\ key \in DOMAIN x.fields
    THEN x.fields[key]
    ELSE Undefined

\* ------------------------------------------------------------------------
\* Tokens of a model reply
\* ------------------------------------------------------------------------
ScalarTokens == {"\"A\"", "\"B\"", "1", "null"}

ScalarOf(tok) ==
    CASE tok = "\"A\"" -> Str("A")
      [] tok = "\"B\"" -> Str("B")
      [] tok = "1" -> Num("1")
      [] OTHER -> Null

MemberTokens ==
    <<"title:X", "author:Y", "isbn:I", "genre:G", "page_count:3",
      "page_count:0", "pageCount:5", "error:No books detected", "error:">>

MemberKey(tok) ==
    CASE tok = "title:X" -> "title"
      [] tok = "author:Y" -> "author"
      [] tok = "isbn:I" -> "isbn"
      [] tok = "genre:G" -> "genre"
      [] tok \in {"page_count:3", "page_count:0"} -> "page_count"
      [] tok = "pageCount:5" -> "pageCount"
      [] OTHER -> "error"

MemberValue(tok) ==
    CASE tok = "title:X" -> Str("X")
      [] tok = "author:Y" -> Str("Y")
      [] tok = "isbn:I" -> Str("I")
      [] tok = "genre:G" -> Str("G")
      [] tok = "page_count:3" -> Num("3")
      [] tok = "page_count:0" -> Num("0")
      [] tok = "pageCount:5" -> Num("5")
      [] tok = "error:No books detected" -> Str("No books detected")
      [] OTHER -> Str("")

MemberSet == {MemberTokens[i] : i \in DOMAIN MemberTokens}

\* ------------------------------------------------------------------------
\* content.match(/(\[.*\]|\{.*\})/s)
\* ------------------------------------------------------------------------
NoMatch == <<"<null>">>

HasAfter(s, i, c) == \E j \in (i + 1)..Len(s) : s[j] = c

LastIndexOf(s, c) ==
    CHOOSE j \in 1..Len(s) : s[j] = c /\ \A k \in (j + 1)..Len(s) : s[k] # c

\* positions where one of the two alternatives can match
MatchStarts(s) ==
    {i \in 1..Len(s) :
        \/ s[i] = "[" /\ HasAfter(s, i, "]")
        \/ s[i] = "{" /\ HasAfter(s, i, "}")}

\* jsonMatch[0]: leftmost start, greedy up to the last closing character
JsonMatch(s) ==
    IF MatchStarts(s) = {} THEN NoMatch
    ELSE LET i == CHOOSE k \in MatchStarts(s) : \A m \in MatchStarts(s) : k <= m
             close == IF s[i] = "[" THEN "]" ELSE "}"
         IN SubSeq(s, i, LastIndexOf(s, close))

\* ------------------------------------------------------------------------
\* JSON.parse
\* ------------------------------------------------------------------------
ParseFail == [ok |-> FALSE, val |-> Undefined, next |-> 0]
ParseOk(val, next) == [ok |-> TRUE, val |-> val, next |-> next]

\* members of an object, after the opening brace; a later duplicate key wins
RECURSIVE ParseMembers(_, _, _)
ParseMembers(s, i, fields) ==
    IF i + 1 > Len(s) \/ s[i] \notin MemberSet THEN ParseFail
    ELSE LET k == MemberKey(s[i])
             f == [x \in (DOMAIN fields) \cup {k} |->
                      IF x = k THEN MemberValue(s[i]) ELSE fields[x]]
         IN CASE s[i + 1] = "}" -> ParseOk(Obj(f), i + 2)
              [] s[i + 1] = "," -> ParseMembers(s, i + 2, f)
              [] OTHER -> ParseFail

RECURSIVE ParseValue(_, _)
RECURSIVE ParseItems(_, _, _)
ParseValue(s, i) ==
    IF i > Len(s) THEN ParseFail
    ELSE CASE s[i] \in ScalarTokens -> ParseOk(ScalarOf(s[i]), i + 1)
           [] s[i] = "[" ->
                IF i + 1 <= Len(s) /\ s[i + 1] = "]"
                THEN ParseOk(Arr(<<>>), i + 2)
                ELSE ParseItems(s, i + 1, <<>>)
           [] s[i] = "{" ->
                IF i + 1 <= Len(s) /\ s[i + 1] = "}"
                THEN ParseOk(Obj(<<>>), i + 2)
                ELSE ParseMembers(s, i + 1, <<>>)
           [] OTHER -> ParseFail

\* elements of an array, after the opening bracket
ParseItems(s, i, acc) ==
    LET r == ParseValue(s, i)
    IN IF ~r.ok \/ r.next > Len(s) THEN ParseFail
       ELSE CASE s[r.next] = "]" -> ParseOk(Arr(Append(acc, r.val)), r.next + 1)
              [] s[r.next] = "," -> ParseItems(s, r.next + 1, Append(acc, r.val))
              [] OTHER -> ParseFail

\* JSON.parse(text): the whole text is one value, or a SyntaxError
JsonParse(s) ==
    LET r == ParseValue(s, 1)
    IN IF r.ok /\ r.next = Len(s) + 1 THEN r ELSE ParseFail

\* ------------------------------------------------------------------------
\* Thrown values and service results
\* ------------------------------------------------------------------------
\* status 0: no status property; respStatus 0: no response property
ErrorOf(name, msg) ==
    [name |-> name, code |-> "", status |-> 0, message |-> Str(msg),
     respStatus |-> 0, respMessage |-> Undefined]

\* throw { status, message }
StatusError(status, message) ==
    [name |-> "object", code |-> "", status |-> status, message |-> message,
     respStatus |-> 0, respMessage |-> Undefined]

\* what axios rejects with, by outcome of the outbound call
AxiosError(outcome) ==
    CASE outcome.kind = "timeout" ->
            [name |-> "AxiosError", code |-> "ECONNABORTED", status |-> 0,
             message |-> Str("timeout exceeded"),
             respStatus |-> 0, respMessage |-> Undefined]
      [] outcome.kind = "http" ->
            \* newer axios releases also copy response.status to error.status
            [name |-> "AxiosError", code |-> "ERR_BAD_RESPONSE",
             status |-> IF outcome.errStatus THEN outcome.status ELSE 0,
             message |-> Str(<<"Request failed with status code", outcome.status>>),
             respStatus |-> outcome.status, respMessage |-> outcome.message]
      [] OTHER ->
            [name |-> "AxiosError", code |-> "ENOTFOUND", status |-> 0,
             message |-> Str("Network Error"),
             respStatus |-> 0, respMessage |-> Undefined]

NoError == ErrorOf("none", "")
Return(value) == [ok |-> TRUE, value |-> value, err |-> NoError]
Throw(err) == [ok |-> FALSE, value |-> <<>>, err |-> err]

\* ------------------------------------------------------------------------
\* openaiService
\* ------------------------------------------------------------------------
\* response.data.choices[0].message.content, after the awaited axios.post
ReadContent(outcome) ==
    CASE outcome.kind = "reply" -> Return(outcome.content)
      [] outcome.kind = "badshape" -> Throw(ErrorOf("TypeError", "Cannot read properties of undefined"))
      [] OTHER -> Throw(AxiosError(outcome))

\* sendMessage and analyzeImage: the completion text, or the error rethrown
SendMessage(outcome) == ReadContent(outcome)

AnalyzeImage(outcome) == ReadContent(outcome)

\* book => ({ title: book.title || "Unknown Title", ... })
MapBook(book) ==
    [title |-> Or(Get(book, "title"), Str("Unknown Title")),
     author |-> Or(Get(book, "author"), Str("Unknown Author")),
     isbn |-> Or(Get(book, "isbn"), Null),
     genre |-> Or(Get(book, "genre"), Null),
     pageCount |-> Or(Get(book, "page_count"), Or(Get(book, "pageCount"), Null))]

\* booksData.map(...): reading a property of a null element throws
MapBooks(items) ==
    IF \E i \in DOMAIN items : items[i].kind = "null"
    THEN Throw(ErrorOf("TypeError", "Cannot read properties of null"))
    ELSE Return([i \in DOMAIN items |-> MapBook(items[i])])

\* variant: the sentinel is looked for under another key
IsErrorResponse_WrongKey(data) ==
    TypeofObject(data) /\ ~IsArray(data) /\ Truthy(Get(data, "message"))

\* the error-response test of scanBooks
IsErrorResponse(data) ==
    TypeofObject(data) /\ ~IsArray(data) /\ Truthy(Get(data, "error"))

\* the try block of scanBooks, from the model's content on
ScanBooksBody(content) ==
    LET jsonMatch == JsonMatch(content)
        parsed == JsonParse(jsonMatch)
        booksData == parsed.val
    IN IF jsonMatch = NoMatch THEN Throw(ErrorOf("Error", "No JSON found in response"))
       ELSE IF ~parsed.ok THEN Throw(ErrorOf("SyntaxError", "Unexpected token"))
       ELSE IF IsErrorResponse(booksData) THEN Throw(StatusError(404, Get(booksData, "error")))
       ELSE IF ~IsArray(booksData) THEN Throw(ErrorOf("Error", "Unexpected response format"))
       ELSE MapBooks(booksData.items)

\* variant: a reply without JSON counts as an empty title list
ExtractTitlesBody_EmptyOnNoMatch(content) ==
    LET jsonMatch == JsonMatch(content)
        parsed == JsonParse(jsonMatch)
        titlesData == parsed.val
    IN IF jsonMatch = NoMatch THEN Return(<<>>)
       ELSE IF ~parsed.ok THEN Throw(ErrorOf("SyntaxError", "Unexpected token"))
       ELSE IF ~IsArray(titlesData) THEN Throw(ErrorOf("Error", "Unexpected response format"))
       ELSE Return(titlesData.items)

\* the try block of extractBookTitles, from the model's content on
ExtractTitlesBody(content) ==
    LET jsonMatch == JsonMatch(content)
        parsed == JsonParse(jsonMatch)
        titlesData == parsed.val
    IN IF jsonMatch = NoMatch THEN Throw(ErrorOf("Error", "No JSON found in response"))
       ELSE IF ~parsed.ok THEN Throw(ErrorOf("SyntaxError", "Unexpected token"))
       ELSE IF ~IsArray(titlesData) THEN Throw(ErrorOf("Error", "Unexpected response format"))
       ELSE Return(titlesData.items)

\* variant: the timeout is looked for under another error code
TimeoutCatch_WrongCode(result) ==
    IF ~result.ok /\ result.err.code = "ETIMEDOUT"
    THEN Throw(StatusError(408, Str("The API request timed out. Please try again.")))
    ELSE result

\* the catch block of scanBooks and extractBookTitles
TimeoutCatch(result) ==
    IF ~result.ok /\ result.err.code = "ECONNABORTED"
    THEN Throw(StatusError(408, Str("The API request timed out. Please try again.")))
    ELSE result

ScanBooks(outcome) ==
    LET c == ReadContent(outcome)
    IN TimeoutCatch(IF c.ok THEN ScanBooksBody(c.value) ELSE c)

ExtractBookTitles(outcome) ==
    LET c == ReadContent(outcome)
    IN TimeoutCatch(IF c.ok THEN ExtractTitlesBody(c.value) ELSE c)

\* ------------------------------------------------------------------------
\* googleBooksService
\* ------------------------------------------------------------------------
\* substring(0, 200)
DescLimit == 200

\* a text of n characters
Filler(n) == [i \in 1..n |-> IF i % 2 = 1 THEN "a" ELSE "b"]

\* a string value, as the sequence of its characters
Text(cs) == [kind |-> "string", chars |-> cs]

Ellipsis == <<".", ".", ".">>

\* s.substring(from, to) for 0 <= from <= to
Substring(cs, from, to) ==
    SubSeq(cs, from + 1, IF to < Len(cs) THEN to ELSE Len(cs))

\* variant: the cut leaves room for the marker inside the limit
Description_MarkerInsideLimit(d) ==
    IF d.kind = "string" /\ Len(d.chars) > 0
    THEN Text(IF Len(d.chars) > DescLimit
              THEN Substring(d.chars, 0, DescLimit - 3) \o Ellipsis
              ELSE d.chars)
    ELSE Null

\* d ? d.substring(0, 200) + (d.length > 200 ? '...' : '') : null
Description(d) ==
    IF d.kind = "string" /\ Len(d.chars) > 0
    THEN Text(Substring(d.chars, 0, DescLimit)
              \o (IF Len(d.chars) > DescLimit THEN Ellipsis ELSE <<>>))
    ELSE Null

\* a volume of the metadata API; of volumeInfo only the description is kept,
\* the other fields are copied to the record as they are
Volume(d) == [id |-> "vol1", description |-> d]

\* replies of the book-metadata API to one lookup
LookupReplies ==
    {[kind |-> "ok", totalItems |-> 0, items |-> <<>>],
     [kind |-> "ok", totalItems |-> 1, items |-> <<Volume(Text(Filler(2)))>>],
     [kind |-> "ok", totalItems |-> 1, items |-> <<>>],
     [kind |-> "error", totalItems |-> 0, items |-> <<>>]}

\* searchBookByTitle(title), once its axios.get has settled with reply
\* variant: no catch block, a failed lookup rejects the promise
SearchBookByTitle_NoCatch(title, reply) ==
    IF reply.kind = "error"
    THEN Throw(AxiosError([kind |-> "network", errStatus |-> FALSE]))
    ELSE IF reply.totalItems = 0
    THEN Return([title |-> title, found |-> FALSE])
    ELSE IF Len(reply.items) = 0
    THEN Throw(ErrorOf("TypeError", "Cannot read properties of undefined"))
    ELSE Return([title |-> title, found |-> TRUE, id |-> reply.items[1].id,
                 description |-> Description(reply.items[1].description)])

\* the promise is fulfilled on every path: the catch block returns a record
SearchBookByTitle(title, reply) ==
    IF reply.kind = "error"
    THEN Return([title |-> title, found |-> FALSE, error |-> "Network Error"])
    ELSE IF reply.totalItems = 0
    THEN Return([title |-> title, found |-> FALSE])
    ELSE IF Len(reply.items) = 0
    THEN Return([title |-> title, found |-> FALSE,
                 error |-> "Cannot read properties of undefined"])
    ELSE Return([title |-> title, found |-> TRUE, id |-> reply.items[1].id,
                 description |-> Description(reply.items[1].description)])

\* ------------------------------------------------------------------------
\* Inputs: replies of the model API
\* ------------------------------------------------------------------------
SeqsUpTo(S, n) == UNION {[1..k -> S] : k \in 0..n}

\* the texts of texts, joined by commas
RECURSIVE JoinComma(_)
JoinComma(texts) ==
    IF Len(texts) = 0 THEN <<>>
    ELSE IF Len(texts) = 1 THEN texts[1]
    ELSE texts[1] \o <<",">> \o JoinComma(Tail(texts))

SimpleItems ==
    {<<"\"A\"">>, <<"\"B\"">>, <<"1">>, <<"null">>, <<"[", "]">>, <<"{", "}">>}

ArrayTexts ==
    {<<"[">> \o JoinComma(items) \o <<"]">> : items \in SeqsUpTo(SimpleItems, MaxItems)}

ObjectTexts ==
    {<<"{">> \o JoinComma([i \in DOMAIN members |-> <<members[i]>>]) \o <<"}">> :
        members \in SeqsUpTo(MemberSet, MaxMembers)}

ObjectArrayTexts == {<<"[">> \o o \o <<"]">> : o \in ObjectTexts}

RawTokens == {"[", "]", "{", "}", ",", "1", "p"}

RawTexts == SeqsUpTo(RawTokens, MaxRaw)

Prose == {<<>>, <<"p">>}

\* the completion texts the model may answer with
Contents ==
    {pre \o text \o post :
        pre \in Prose, post \in Prose,
        text \in ArrayTexts \cup ObjectTexts \cup ObjectArrayTexts \cup RawTexts}

\* how the outbound call to the model API ends
ModelOutcomes ==
    {[kind |-> "reply", content |-> c, status |-> 200, message |-> Undefined,
      errStatus |-> FALSE] : c \in Contents}
    \cup {[kind |-> "badshape", content |-> <<>>, status |-> 200, message |-> Undefined,
           errStatus |-> FALSE],
          [kind |-> "timeout", content |-> <<>>, status |-> 0, message |-> Undefined,
           errStatus |-> FALSE],
          [kind |-> "network", content |-> <<>>, status |-> 0, message |-> Undefined,
           errStatus |-> FALSE]}
    \cup {[kind |-> "http", content |-> <<>>, status |-> 429,
           message |-> Str("Rate limit reached"), errStatus |-> e] : e \in BOOLEAN}
    \cup {[kind |-> "http", content |-> <<>>, status |-> 502,
           message |-> Undefined, errStatus |-> e] : e \in BOOLEAN}

NoOutcome ==
    [kind |-> "none", content |-> <<>>, status |-> 0, message |-> Undefined,
     errStatus |-> FALSE]

\* ------------------------------------------------------------------------
\* State
\* ------------------------------------------------------------------------
VARIABLES
    pc,          \* position of the request: idle, handler, compressing,
                 \* awaitModel, awaitLookups, done, hung
    req,         \* endpoint, whether a file was uploaded, whether body.image is
                 \* set, base64 length of the upload
    sharp,       \* how the sharp pipeline of compressImage ended: none, ok, failed
    tmpFile,     \* the upload's temporary file: none, present, deleted
    sentImage,   \* image sent to the model: none, original, compressed
    modelCalls,  \* calls of the model API made for this request
    bookCalls,   \* calls of the book-metadata API made for this request
    outcome,     \* how the model call ended
    titles,      \* value returned by extractBookTitles
    lookups,     \* the promises of titles.map(searchBookByTitle)
    replies,     \* reply of the book-metadata API to each lookup
    reordered,   \* a lookup settled while an earlier one was pending
    caught,      \* the error the handler's catch block received, if any
    response     \* the HTTP response of this request

vars == <<pc, req, sharp, tmpFile, sentImage, modelCalls, bookCalls, outcome, titles,
          lookups, replies, reordered, caught, response>>

Endpoints ==
    {"send-message", "analyze-image", "scan-books", "extract-book-titles",
     "convert-image", "compress-image", "health"}

\* routes behind upload.single(...)
UploadRoutes == {"scan-books", "extract-book-titles", "convert-image", "compress-image"}

\* routes whose handler reads req.body.image
BodyImageRoutes == {"analyze-image", "scan-books", "extract-book-titles"}

\* base64 lengths of the uploaded file
UploadSizes(ep, file) ==
    IF ~file THEN {0} ELSE IF ep = "compress-image" THEN {0, 4, 8} ELSE {8}

\* base64 lengths of what the sharp pipeline produces
CompressedSizes == {4, 12}

NoResponse ==
    [sent |-> 0, status |-> 0, type |-> "none", body |-> [none |-> TRUE], timeTaken |-> FALSE]

\* variant: the response time middleware is not installed
ResJson_NoMiddleware(status, body) ==
    [sent |-> 1, status |-> status, type |-> "json", body |-> body, timeTaken |-> FALSE]

\* res.status(status).json(body) through the response time middleware, which
\* replaces res.json and adds timeTaken to every body that is an object
\* (every body the handlers pass is an object literal)
ResJson(status, body) ==
    [sent |-> 1, status |-> status, type |-> "json", body |-> body, timeTaken |-> TRUE]

\* res.status(status).send(text), or the text written by the default error
\* handler: neither goes through res.json
ResSend(status, text) ==
    [sent |-> 1, status |-> status, type |-> "text", body |-> [text |-> text],
     timeTaken |-> FALSE]

NoReply == [kind |-> "none", totalItems |-> 0, items |-> <<>>]

Init ==
    /\ pc = "idle"
    /\ req = [endpoint |-> "send-message", hasFile |-> FALSE, bodyImage |-> FALSE,
              size |-> 0]
    /\ sharp = "none"
    /\ tmpFile = "none"
    /\ sentImage = "none"
    /\ modelCalls = 0
    /\ bookCalls = 0
    /\ outcome = NoOutcome
    /\ titles = <<>>
    /\ lookups = <<>>
    /\ replies = <<>>
    /\ reordered = FALSE
    /\ caught = NoError
    /\ response = NoResponse

\* ------------------------------------------------------------------------
\* Request handlers
\* ------------------------------------------------------------------------
\* a request arrives; on the upload routes multer has stored the file
Receive(ep, file, image) ==
    /\ pc = "idle"
    /\ file => ep \in UploadRoutes
    /\ image => ep \in BodyImageRoutes
    /\ pc' = "handler"
    /\ \E size \in UploadSizes(ep, file) :
           req' = [endpoint |-> ep, hasFile |-> file, bodyImage |-> image, size |-> size]
    /\ sharp' = "none"
    /\ tmpFile' = IF file THEN "present" ELSE "none"
    /\ sentImage' = "none"
    /\ modelCalls' = 0
    /\ bookCalls' = 0
    /\ outcome' = NoOutcome
    /\ titles' = <<>>
    /\ lookups' = <<>>
    /\ replies' = <<>>
    /\ reordered' = FALSE
    /\ caught' = NoError
    /\ response' = NoResponse

\* the response has been written: the request is over and the server waits
\* for the next one (the variables follow one request at a time)
Finish ==
    /\ pc = "done"
    /\ pc' = "idle"
    /\ req' = [endpoint |-> "send-message", hasFile |-> FALSE, bodyImage |-> FALSE,
               size |-> 0]
    /\ sharp' = "none"
    /\ tmpFile' = "none"
    /\ sentImage' = "none"
    /\ modelCalls' = 0
    /\ bookCalls' = 0
    /\ outcome' = NoOutcome
    /\ titles' = <<>>
    /\ lookups' = <<>>
    /\ replies' = <<>>
    /\ reordered' = FALSE
    /\ caught' = NoError
    /\ response' = NoResponse

\* /send-message up to the awaited axios.post of sendMessage
SendMessageStart ==
    /\ pc = "handler"
    /\ req.endpoint = "send-message"
    /\ pc' = "awaitModel"
    /\ modelCalls' = modelCalls + 1
    /\ UNCHANGED <<req, sharp, tmpFile, sentImage, bookCalls, outcome, titles, lookups,
                   replies, reordered, caught, response>>

\* /analyze-image up to the awaited sharp pipeline of compressImage
AnalyzeImageStart ==
    /\ pc = "handler"
    /\ req.endpoint = "analyze-image"
    /\ pc' = "compressing"
    /\ UNCHANGED <<req, sharp, tmpFile, sentImage, modelCalls, bookCalls, outcome, titles,
                   lookups, replies, reordered, caught, response>>

\* variant: the final else branch is missing, the handler goes on without image
ImageInput_NoValidation(ep, fsOk) ==
    /\ pc = "handler"
    /\ req.endpoint = ep
    /\ IF req.hasFile /\ ~fsOk
       THEN pc' = "hung" /\ UNCHANGED tmpFile
       ELSE /\ pc' = "compressing"
            /\ tmpFile' = IF req.hasFile THEN "deleted" ELSE tmpFile
    /\ UNCHANGED <<req, sharp, sentImage, modelCalls, bookCalls, outcome, titles, lookups,
                   replies, reordered, caught, response>>

\* the image input of /scan-books and /extract-book-titles, up to the
\* awaited sharp pipeline; fsOk: readFileSync and unlinkSync succeed
ImageInput(ep, fsOk) ==
    /\ pc = "handler"
    /\ req.endpoint = ep
    /\ IF req.hasFile
       THEN IF fsOk
            THEN /\ tmpFile' = "deleted"
                 /\ pc' = "compressing"
                 /\ UNCHANGED response
            ELSE \* the exception leaves the async handler before its try
                 \* block: Express 4 sends nothing, Express 5 passes the
                 \* rejection to its default error handler
                 /\ \/ pc' = "hung" /\ UNCHANGED response
                    \/ pc' = "done" /\ response' = ResSend(500, "Internal Server Error")
                 /\ UNCHANGED tmpFile
       ELSE IF req.bodyImage
            THEN /\ pc' = "compressing"
                 /\ UNCHANGED <<tmpFile, response>>
            ELSE /\ response' = ResJson(400, [error |-> Str("Image data is required. Either upload a file or provide base64 image data.")])
                 /\ pc' = "done"
                 /\ UNCHANGED tmpFile
    /\ UNCHANGED <<req, sharp, sentImage, modelCalls, bookCalls, outcome, titles, lookups,
                   replies, reordered, caught>>

ScanBooksStart(fsOk) == ImageInput("scan-books", fsOk)

\* variant: the failure of the sharp pipeline is passed on to the caller
CompressImage_Rethrow(input, ok, output) ==
    IF ok THEN Return(output) ELSE Throw(ErrorOf("Error", "Input buffer contains unsupported image format"))

\* compressImage(input): output of the sharp pipeline, or on any failure the
\* input it was given
CompressImage(input, ok, output) ==
    IF ok THEN Return(output) ELSE Return(input)

\* what readFileSync or unlinkSync throws
FsError == ErrorOf("Error", "ENOENT: no such file or directory")

\* GET /health
Health ==
    /\ pc = "handler"
    /\ req.endpoint = "health"
    /\ response' = ResJson(200, [status |-> Str("ok"), version |-> Str("1.0.0")])
    /\ pc' = "done"
    /\ UNCHANGED <<req, sharp, tmpFile, sentImage, modelCalls, bookCalls, outcome, titles,
                   lookups, replies, reordered, caught>>

\* POST /convert-image: the whole handler is synchronous and inside one try
ConvertImage(readOk, unlinkOk) ==
    /\ pc = "handler"
    /\ req.endpoint = "convert-image"
    /\ pc' = "done"
    /\ IF ~req.hasFile
       THEN /\ response' = ResJson(400, [error |-> Str("No image file uploaded")])
            /\ UNCHANGED <<tmpFile, caught>>
       ELSE IF readOk /\ unlinkOk
            THEN /\ tmpFile' = "deleted"
                 /\ response' = ResJson(200, [image |-> req.size])
                 /\ UNCHANGED caught
            ELSE /\ caught' = FsError
                 /\ response' = ResJson(500, [error |-> Str("Failed to convert image")])
                 /\ UNCHANGED tmpFile
    /\ UNCHANGED <<req, sharp, sentImage, modelCalls, bookCalls, outcome, titles, lookups,
                   replies, reordered>>

\* POST /compress-image up to the awaited compressImage
CompressImageStart(readOk) ==
    /\ pc = "handler"
    /\ req.endpoint = "compress-image"
    /\ IF ~req.hasFile
       THEN /\ response' = ResJson(400, [error |-> Str("No image file uploaded")])
            /\ pc' = "done"
            /\ UNCHANGED caught
       ELSE IF readOk
            THEN /\ pc' = "compressing"
                 /\ UNCHANGED <<caught, response>>
            ELSE /\ caught' = FsError
                 /\ response' = ResJson(500, [error |-> Str("Failed to compress image")])
                 /\ pc' = "done"
    /\ UNCHANGED <<req, sharp, tmpFile, sentImage, modelCalls, bookCalls, outcome, titles,
                   lookups, replies, reordered>>

\* ((originalSize - compressedSize) / originalSize * 100).toFixed(2), in
\* hundredths of a percent; a division by zero prints NaN or -Infinity
SavingsPercent(originalSize, compressedSize) ==
    IF originalSize = 0
    THEN IF compressedSize = 0 THEN Str("NaN%") ELSE Str("-Infinity%")
    ELSE [kind |-> "percent",
          v |-> ((originalSize - compressedSize) * 10000) \div originalSize]

\* POST /compress-image from the settled compressImage to the response
CompressImageDone(ok, output, unlinkOk) ==
    /\ pc = "compressing"
    /\ req.endpoint = "compress-image"
    /\ ok => req.size > 0                     \* sharp rejects an empty buffer
    /\ sharp' = IF ok THEN "ok" ELSE "failed"
    /\ pc' = "done"
    /\ LET r == CompressImage(req.size, ok, output)
       IN IF ~r.ok
          THEN /\ caught' = r.err
               /\ response' = ResJson(500, [error |-> Str("Failed to compress image")])
               /\ UNCHANGED tmpFile
          ELSE IF unlinkOk
               THEN /\ tmpFile' = "deleted"
                    /\ response' = ResJson(200,
                           [originalSize |-> req.size,
                            compressedSize |-> r.value,
                            savingsPercent |-> SavingsPercent(req.size, r.value)])
                    /\ UNCHANGED caught
               ELSE /\ caught' = FsError
                    /\ response' = ResJson(500, [error |-> Str("Failed to compress image")])
                    /\ UNCHANGED tmpFile
    /\ UNCHANGED <<req, sentImage, modelCalls, bookCalls, outcome, titles, lookups,
                   replies, reordered>>

ExtractTitlesStart(fsOk) == ImageInput("extract-book-titles", fsOk)

\* variant: the status of the upstream reply is not relayed
HandlerCatch_Always500(err) ==
    IF err.status # 0
    THEN ResJson(err.status, [error |-> err.message])
    ELSE ResJson(500, [error |-> Or(err.respMessage, Str("Error processing image"))])

\* the catch block of /scan-books and /extract-book-titles
HandlerCatch(err) ==
    IF err.status # 0
    THEN ResJson(err.status, [error |-> err.message])
    ELSE ResJson(IF err.respStatus # 0 THEN err.respStatus ELSE 500,
                 [error |-> Or(err.respMessage, Str("Error processing image"))])

\* compressImage settles in analyzeImage, scanBooks or extractBookTitles and
\* the caller issues its axios.post; a rejection would leave the caller
\* before its try block
CompressDone(ok) ==
    /\ pc = "compressing"
    /\ req.endpoint \in BodyImageRoutes
    /\ ok => (req.hasFile \/ req.bodyImage)   \* Buffer.from(undefined) throws
    /\ sharp' = IF ok THEN "ok" ELSE "failed"
    /\ LET r == CompressImage("original", ok, "compressed")
       IN IF r.ok
          THEN /\ sentImage' = r.value
               /\ modelCalls' = modelCalls + 1
               /\ pc' = "awaitModel"
               /\ UNCHANGED <<caught, response>>
          ELSE /\ caught' = r.err
               /\ response' = IF req.endpoint = "analyze-image"
                               THEN ResSend(500, "Error processing request")
                               ELSE HandlerCatch(r.err)
               /\ pc' = "done"
               /\ UNCHANGED <<sentImage, modelCalls>>
    /\ UNCHANGED <<req, tmpFile, bookCalls, outcome, titles, lookups, replies,
                   reordered>>

\* /send-message after the model call
SendMessageReply(o) ==
    /\ pc = "awaitModel"
    /\ req.endpoint = "send-message"
    /\ outcome' = o
    /\ LET r == SendMessage(o)
       IN /\ response' = IF r.ok THEN ResJson(200, [message |-> r.value])
                         ELSE ResSend(500, "Error processing request")
          /\ caught' = r.err
    /\ pc' = "done"
    /\ UNCHANGED <<req, sharp, tmpFile, sentImage, modelCalls, bookCalls, titles, lookups,
                   replies, reordered>>

\* /analyze-image after the model call
AnalyzeImageReply(o) ==
    /\ pc = "awaitModel"
    /\ req.endpoint = "analyze-image"
    /\ outcome' = o
    /\ LET r == AnalyzeImage(o)
       IN /\ response' = IF r.ok THEN ResJson(200, [analysis |-> r.value])
                         ELSE ResSend(500, "Error processing request")
          /\ caught' = r.err
    /\ pc' = "done"
    /\ UNCHANGED <<req, sharp, tmpFile, sentImage, modelCalls, bookCalls, titles, lookups,
                   replies, reordered>>

\* /scan-books after the model call
ScanBooksReply(o) ==
    /\ pc = "awaitModel"
    /\ req.endpoint = "scan-books"
    /\ outcome' = o
    /\ LET r == ScanBooks(o)
       IN /\ response' = IF r.ok THEN ResJson(200, [books |-> r.value])
                         ELSE HandlerCatch(r.err)
          /\ caught' = r.err
    /\ pc' = "done"
    /\ UNCHANGED <<req, sharp, tmpFile, sentImage, modelCalls, bookCalls, titles, lookups,
                   replies, reordered>>

\* variant: every lookup is issued a second time
StartLookups_Twice(ts) ==
    [i \in 1..(2 * Len(ts)) |->
        [title |-> ts[((i - 1) % Len(ts)) + 1], state |-> "pending"]]

\* titles.map(title => searchBookByTitle(title)): every lookup is issued,
\* one axios.get each
StartLookups(ts) == [i \in DOMAIN ts |-> [title |-> ts[i], state |-> "pending"]]

\* variant: only the records that were found are kept
PromiseAll_DropNotFound(ls) ==
    SelectSeq([i \in DOMAIN ls |-> ls[i].result], LAMBDA r : r.found)

\* Promise.all(booksPromises), once every promise is fulfilled
PromiseAll(ls) == [i \in DOMAIN ls |-> ls[i].result]

AllSettled(ls) == \A i \in DOMAIN ls : ls[i].state = "fulfilled"

\* /extract-book-titles after the model call, up to the awaited Promise.all
ExtractTitlesReply(o) ==
    /\ pc = "awaitModel"
    /\ req.endpoint = "extract-book-titles"
    /\ outcome' = o
    /\ LET r == ExtractBookTitles(o)
       IN IF r.ok
          THEN /\ titles' = r.value
               /\ lookups' = StartLookups(r.value)
               /\ replies' = [i \in DOMAIN r.value |-> NoReply]
               /\ bookCalls' = bookCalls + Len(StartLookups(r.value))
               /\ IF Len(r.value) = 0
                  THEN /\ response' = ResJson(200, [books |-> <<>>])
                       /\ pc' = "done"
                  ELSE /\ pc' = "awaitLookups"
                       /\ UNCHANGED response
          ELSE /\ response' = HandlerCatch(r.err)
               /\ pc' = "done"
               /\ UNCHANGED <<titles, lookups, replies, bookCalls>>
    /\ caught' = ExtractBookTitles(o).err
    /\ UNCHANGED <<req, sharp, tmpFile, sentImage, modelCalls, reordered>>

\* variant: results are collected in the order in which lookups complete
Settle_CompletionOrder(ls, i, result) ==
    LET j == CHOOSE k \in DOMAIN ls :
                 /\ ls[k].state = "pending"
                 /\ \A m \in 1..(k - 1) : ls[m].state # "pending"
    IN [ls EXCEPT ![j] = [title |-> ls[j].title, state |-> "fulfilled", result |-> result]]

\* the promise of lookup i is fulfilled with result
Settle(ls, i, result) ==
    [ls EXCEPT ![i] = [title |-> ls[i].title, state |-> "fulfilled", result |-> result]]

\* the axios.get of lookup i settles with reply; Promise.all rejects with
\* the first rejection, and resolves after the last fulfilment; the handler
\* then answers
LookupReply(i, reply) ==
    /\ pc = "awaitLookups"
    /\ i \in DOMAIN lookups
    /\ lookups[i].state = "pending"
    /\ replies' = [replies EXCEPT ![i] = reply]
    /\ reordered' = (reordered \/ \E j \in 1..(i - 1) : lookups[j].state = "pending")
    /\ LET r == SearchBookByTitle(lookups[i].title, reply)
           ls == Settle(lookups, i, r.value)
       IN IF r.ok
          THEN /\ lookups' = ls
               /\ UNCHANGED caught
               /\ IF AllSettled(ls)
                  THEN /\ response' = ResJson(200, [books |-> PromiseAll(ls)])
                       /\ pc' = "done"
                  ELSE UNCHANGED <<response, pc>>
          ELSE /\ lookups' = [lookups EXCEPT ![i] = [title |-> lookups[i].title, state |-> "rejected"]]
               /\ caught' = r.err
               /\ response' = HandlerCatch(r.err)
               /\ pc' = "done"
    /\ UNCHANGED <<req, sharp, tmpFile, sentImage, modelCalls, bookCalls, outcome, titles>>

Next ==
    \/ \E ep \in Endpoints, file \in BOOLEAN, image \in BOOLEAN : Receive(ep, file, image)
    \/ Finish
    \/ SendMessageStart
    \/ AnalyzeImageStart
    \/ \E fsOk \in BOOLEAN : ScanBooksStart(fsOk)
    \/ \E fsOk \in BOOLEAN : ExtractTitlesStart(fsOk)
    \/ \E ok \in BOOLEAN : CompressDone(ok)
    \/ Health
    \/ \E readOk \in BOOLEAN, unlinkOk \in BOOLEAN : ConvertImage(readOk, unlinkOk)
    \/ \E readOk \in BOOLEAN : CompressImageStart(readOk)
    \/ \E ok \in BOOLEAN, output \in CompressedSizes, unlinkOk \in BOOLEAN :
           CompressImageDone(ok, output, unlinkOk)
    \/ pc = "awaitModel" /\ \E o \in ModelOutcomes : SendMessageReply(o)
    \/ pc = "awaitModel" /\ \E o \in ModelOutcomes : AnalyzeImageReply(o)
    \/ pc = "awaitModel" /\ \E o \in ModelOutcomes : ScanBooksReply(o)
    \/ pc = "awaitModel" /\ \E o \in ModelOutcomes : ExtractTitlesReply(o)
    \/ pc = "awaitLookups" /\ \E i \in DOMAIN lookups, reply \in LookupReplies : LookupReply(i, reply)

Spec == Init /\ [][Next]_vars

\* ------------------------------------------------------------------------
\* The enricher over descriptions of every length around the limit
\* ------------------------------------------------------------------------
\* replies with one volume: no description, or one of 0..DescLimit+MaxExtra
\* characters
DescriptionReplies ==
    {[kind |-> "ok", totalItems |-> 1, items |-> <<Volume(d)>>] :
        d \in {Undefined} \cup {Text(Filler(n)) : n \in 0..(DescLimit + MaxExtra)}}

\* a /extract-book-titles request whose model call gave one title and whose
\* lookup is pending
InitDescription ==
    /\ pc = "awaitLookups"
    /\ req = [endpoint |-> "extract-book-titles", hasFile |-> FALSE, bodyImage |-> TRUE,
              size |-> 0]
    /\ sharp = "ok"
    /\ tmpFile = "none"
    /\ sentImage = "compressed"
    /\ modelCalls = 1
    /\ outcome \in {o \in ModelOutcomes :
                       /\ o.kind = "reply"
                       /\ ExtractBookTitles(o).ok
                       /\ Len(ExtractBookTitles(o).value) = 1}
    /\ titles = ExtractBookTitles(outcome).value
    /\ lookups = StartLookups(titles)
    /\ replies = [i \in DOMAIN titles |-> NoReply]
    /\ bookCalls = Len(titles)
    /\ reordered = FALSE
    /\ caught = NoError
    /\ response = NoResponse

NextDescription ==
    \E reply \in DescriptionReplies : LookupReply(1, reply)

SpecDescription == InitDescription /\ [][NextDescription]_vars

\* ------------------------------------------------------------------------
\* Properties
\* ------------------------------------------------------------------------
Vision == {"scan-books", "extract-book-titles"}

\* the request has been answered
Answered(ep) == pc = "done" /\ req.endpoint = ep

\* /extract-book-titles has answered after its title list went to the enricher
Enriched == Answered("extract-book-titles") /\ Len(lookups) > 0

\* the lookup failed: transport error, or an exception while reading the reply
LookupFailed(reply) ==
    \/ reply.kind = "error"
    \/ reply.kind = "ok" /\ reply.totalItems # 0 /\ Len(reply.items) = 0

\* C1: for every title list of length N handed to the enricher, and every
\* combination of lookup outcomes, the result list has length N and
\* result[i].title is input[i].
C1_SameLengthSameTitles ==
    Enriched =>
        /\ response.status = 200
        /\ "books" \in DOMAIN response.body
        /\ Len(response.body.books) = Len(titles)
        /\ \A i \in DOMAIN titles : response.body.books[i].title = titles[i]

C1_Witness ==
    /\ Enriched
    /\ Len(titles) = 2
    /\ titles[1] # titles[2]
    /\ LookupFailed(replies[1])
    /\ response.body.books[2].found

\* C2: all lookups are issued before any of them is awaited, and whatever the
\* order of completion, element i of the books list is the outcome of the
\* lookup for title i.
C2_AssembledInInputOrder ==
    /\ pc = "awaitLookups" =>
           /\ bookCalls = Len(titles)
           /\ Len(lookups) = Len(titles)
           /\ \A i \in DOMAIN titles : lookups[i].title = titles[i]
    /\ Enriched =>
           /\ "books" \in DOMAIN response.body
           /\ DOMAIN response.body.books = DOMAIN titles
           /\ \A i \in DOMAIN titles :
                  /\ response.body.books[i].title = titles[i]
                  /\ response.body.books[i].found =
                         (replies[i].kind = "ok" /\ Len(replies[i].items) > 0)
                  /\ ("error" \in DOMAIN response.body.books[i]) = LookupFailed(replies[i])

C2_Witness ==
    /\ Enriched
    /\ reordered
    /\ Len(titles) = 2
    /\ titles[1] # titles[2]
    /\ replies[1].kind # replies[2].kind
    /\ response.status = 200

\* C3: a failed lookup never fails the batch: its element is
\* {title, found: false, error}, the other elements carry no error, and the
\* request is answered with a success response of N elements.
C3_LookupFailureIsolated ==
    Enriched =>
        /\ response.status = 200
        /\ response.type = "json"
        /\ "books" \in DOMAIN response.body
        /\ Len(response.body.books) = Len(titles)
        /\ \A i \in DOMAIN titles :
              LET book == response.body.books[i]
              IN IF LookupFailed(replies[i])
                 THEN /\ DOMAIN book = {"title", "found", "error"}
                      /\ book.title = titles[i]
                      /\ ~book.found
                      /\ book.error # ""
                 ELSE "error" \notin DOMAIN book

C3_Witness ==
    /\ Enriched
    /\ Len(titles) = 2
    /\ replies[1].kind = "error"
    /\ replies[2].kind = "ok" /\ Len(replies[2].items) > 0
    /\ response.status = 200
    /\ response.body.books[1].error = "Network Error"
    /\ response.body.books[2].found

\* the model answered with a completion text
Replied(ep) == Answered(ep) /\ outcome.kind = "reply"

\* the value JSON.parse gives for the bracketed part of the reply
Parsed == JsonParse(JsonMatch(outcome.content))

\* the reply is one of the sentinel forms below, inside prose
SentinelArray == <<"[", "{", "error:No books detected", "}", "]">>

SentinelObject == <<"{", "error:No books detected", "}">>

\* C4: scanBooks, given output that holds [{"error":"No books detected"}]
\* inside prose, yields the not-found condition with that message and
\* /scan-books answers 404; neither a parse failure nor a list of books.
C4_EmbeddedSentinelIs404 ==
    (/\ Replied("scan-books")
     /\ outcome.content = <<"p">> \o SentinelArray \o <<"p">>) =>
        /\ caught.status = 404
        /\ response.status = 404
        /\ response.body = [error |-> Str("No books detected")]

\* C5 as stated: in both vision operations a parsed non-array object with an
\* error field (here a non-empty one) fails with the not-found condition (404)
\* carrying the message.
C5_ErrorObjectIs404InBoth ==
    (/\ req.endpoint \in Vision
     /\ Replied(req.endpoint)
     /\ Parsed.ok
     /\ Parsed.val.kind = "object"
     /\ "error" \in DOMAIN Parsed.val.fields
     /\ Parsed.val.fields["error"].v # "") =>
        /\ caught.status = 404
        /\ caught.message = Parsed.val.fields["error"]
        /\ response.status = 404

\* C5 amended: in book-list extraction a parsed non-array object with a
\* non-empty error field fails with the not-found condition (404) carrying
\* the message; title-only extraction has no sentinel and fails on every
\* parsed object with the unexpected-format failure, answered 500.
C5_ErrorObjectIs404InScanBooks ==
    (/\ req.endpoint \in Vision
     /\ Replied(req.endpoint)
     /\ Parsed.ok
     /\ Parsed.val.kind = "object") =>
        IF req.endpoint = "scan-books"
        THEN ("error" \in DOMAIN Parsed.val.fields /\ Parsed.val.fields["error"].v # "") =>
                 /\ caught.status = 404
                 /\ caught.message = Parsed.val.fields["error"]
                 /\ response.status = 404
                 /\ response.body = [error |-> Parsed.val.fields["error"]]
        ELSE /\ caught.status = 0
             /\ caught.message = Str("Unexpected response format")
             /\ response.status = 500
             /\ bookCalls = 0

C5_Witness ==
    /\ Replied("scan-books")
    /\ outcome.content = <<"p">> \o SentinelObject \o <<"p">>
    /\ response.status = 404
    /\ response.body = [error |-> Str("No books detected")]

\* no part of the text is delimited by [ ... ] or by { ... }
NoDelimitedPart(s) ==
    ~ \E i \in 1..Len(s), j \in 1..Len(s) :
          /\ i < j
          /\ \/ s[i] = "[" /\ s[j] = "]"
             \/ s[i] = "{" /\ s[j] = "}"

\* C6: in both vision extractions, output without a [ ... ] or { ... } part
\* fails with "No JSON found in response", no list is returned and the
\* endpoint answers 500.
C6_NoJsonIsMalformedResponse ==
    (/\ req.endpoint \in Vision
     /\ Replied(req.endpoint)
     /\ NoDelimitedPart(outcome.content)) =>
        /\ caught.message = Str("No JSON found in response")
        /\ response.status = 500
        /\ response.type = "json"
        /\ DOMAIN response.body = {"error"}
        /\ titles = <<>>
        /\ bookCalls = 0

C6_Witness ==
    /\ Replied("extract-book-titles")
    /\ outcome.content = <<"p", "]", "[", "p">>
    /\ response.status = 500
    /\ caught.message = Str("No JSON found in response")

\* the field is absent from an array element
Absent(item, key) == item.kind # "object" \/ key \notin DOMAIN item.fields

\* C7: in book-list extraction, whenever the parsed value is an array, the
\* result maps it element by element, same length and order: exactly the
\* fields title, author, isbn, genre, pageCount, with the defaults for absent
\* fields and pageCount from page_count or else pageCount.
C7_ArrayMappedElementwise ==
    (/\ Replied("scan-books")
     /\ Parsed.ok
     /\ Parsed.val.kind = "array") =>
        /\ response.status = 200
        /\ "books" \in DOMAIN response.body
        /\ Len(response.body.books) = Len(Parsed.val.items)
        /\ \A i \in DOMAIN Parsed.val.items :
              LET item == Parsed.val.items[i]
                  book == response.body.books[i]
              IN /\ DOMAIN book = {"title", "author", "isbn", "genre", "pageCount"}
                 /\ Absent(item, "title") => book.title = Str("Unknown Title")
                 /\ ~Absent(item, "title") => book.title = item.fields["title"]
                 /\ Absent(item, "author") => book.author = Str("Unknown Author")
                 /\ Absent(item, "isbn") => book.isbn = Null
                 /\ Absent(item, "genre") => book.genre = Null
                 /\ (Absent(item, "page_count") /\ Absent(item, "pageCount")) =>
                        book.pageCount = Null
                 /\ (~Absent(item, "page_count") /\ item.fields["page_count"].v # "0") =>
                        book.pageCount = item.fields["page_count"]
                 /\ (Absent(item, "page_count") /\ ~Absent(item, "pageCount")) =>
                        book.pageCount = item.fields["pageCount"]

\* C8: title-only extraction returns a flat array of strings unchanged and
\* fails when an element is not a string; no such element reaches the
\* enricher as a title.
C8_OnlyStringTitles ==
    /\ \A i \in DOMAIN lookups : lookups[i].title.kind = "string"
    /\ (/\ Replied("extract-book-titles")
        /\ Parsed.ok
        /\ Parsed.val.kind = "array") =>
           IF \A i \in DOMAIN Parsed.val.items : Parsed.val.items[i].kind = "string"
           THEN titles = Parsed.val.items /\ response.status = 200
           ELSE response.status # 200 /\ bookCalls = 0

\* C9 as stated: in each of the four operations a transport timeout becomes
\* the request-timed-out condition and the request is answered 408.
C9_TimeoutIs408InAll ==
    (pc = "done" /\ outcome.kind = "timeout") =>
        /\ caught.status = 408
        /\ response.status = 408

\* C9 amended: in book-list and title-only extraction a transport timeout
\* becomes the request-timed-out condition (status 408) and the request is
\* answered 408; chat completion and image analysis rethrow the timeout as
\* it is and the request is answered 500.
C9_TimeoutIs408InVision ==
    (pc = "done" /\ outcome.kind = "timeout") =>
        IF req.endpoint \in Vision
        THEN /\ caught = StatusError(408, Str("The API request timed out. Please try again."))
             /\ response.status = 408
             /\ response.body = [error |-> Str("The API request timed out. Please try again.")]
        ELSE /\ caught.code = "ECONNABORTED"
             /\ caught.status = 0
             /\ response.status = 500

C9_Witness ==
    /\ Answered("scan-books")
    /\ outcome.kind = "timeout"
    /\ modelCalls = 1
    /\ response.status = 408

\* C10: a /scan-books or /extract-book-titles request with neither an
\* uploaded file nor a body image is answered 400 with a message saying that
\* image data is required, and no outbound call is made for it.
C10_MissingImageIs400 ==
    (/\ req.endpoint \in Vision
     /\ ~req.hasFile
     /\ ~req.bodyImage
     /\ pc # "handler") =>
        /\ pc = "done"
        /\ response.status = 400
        /\ response.type = "json"
        /\ response.body = [error |-> Str("Image data is required. Either upload a file or provide base64 image data.")]
        /\ modelCalls = 0
        /\ bookCalls = 0
        /\ sentImage = "none"

C10_Witness ==
    /\ Answered("extract-book-titles")
    /\ ~req.hasFile
    /\ ~req.bodyImage
    /\ response.status = 400
    /\ modelCalls = 0

\* ------------------------------------------------------------------------
\* the plain-text responses: the 500 of the catch blocks of /send-message and
\* /analyze-image, and the 500 of the default error handler after a failed
\* read or delete of the upload in /scan-books and /extract-book-titles
TextResponse ==
    /\ response.status = 500
    /\ \/ req.endpoint \in {"send-message", "analyze-image"} /\ caught # NoError
       \/ req.endpoint \in Vision /\ req.hasFile /\ tmpFile = "present"

\* C11 as stated: every response sent by the server, on success paths and on
\* error paths of every endpoint, carries a timeTaken field.
C11_EveryResponseCarriesTimeTaken ==
    response.sent = 1 => response.timeTaken

\* C11: every response sent with res.json, on success paths and on error
\* paths, carries timeTaken; the plain-text 500 responses are sent without
\* res.json and carry none.
C11_JsonResponsesCarryTimeTaken ==
    response.sent = 1 =>
        /\ response.type \in {"json", "text"}
        /\ response.type = "json" => response.timeTaken
        /\ response.type = "text" => ~response.timeTaken /\ TextResponse

C11_Witness ==
    /\ Answered("scan-books")
    /\ outcome.kind = "network"
    /\ response.status = 500
    /\ response.type = "json"
    /\ response.timeTaken

\* C12: compressImage never fails its caller. When the sharp pipeline fails,
\* a vision operation goes on to its model call with the image it was given,
\* and /compress-image, once it has deleted the upload, answers 200 with
\* compressedSize equal to originalSize; the only error it can still report
\* is that of the file deletion.
C12_CompressionFailureIsNotAnError ==
    sharp = "failed" =>
        /\ req.endpoint \in BodyImageRoutes =>
              /\ sentImage = "original"
              /\ modelCalls = 1
              /\ caught # NoError => outcome.kind # "none"
        /\ req.endpoint = "compress-image" =>
              /\ pc = "done"
              /\ tmpFile = "deleted" =>
                    /\ response.status = 200
                    /\ response.body.originalSize = req.size
                    /\ response.body.compressedSize = req.size
              /\ tmpFile # "deleted" => caught = FsError

C12_Witness ==
    /\ Answered("compress-image")
    /\ sharp = "failed"
    /\ req.size > 0
    /\ response.status = 200
    /\ response.body.compressedSize = response.body.originalSize

\* a request that made its model call has been answered after a failure that
\* is neither a timeout nor the no-books sentinel
UnknownFailure ==
    /\ pc = "done"
    /\ modelCalls = 1
    /\ caught # NoError
    /\ outcome.kind \in {"reply", "badshape", "network", "http"}
    /\ caught.status # 404

\* C13 as stated: a failure of unknown shape during a model call, an upstream
\* reply with a non-2xx status included, is answered with HTTP 500.
C13_UnknownFailureIs500 ==
    UnknownFailure => response.status = 500

\* C13: after a failure of unknown shape, /send-message and /analyze-image
\* answer 500 with a fixed text. /scan-books and /extract-book-titles answer
\* with the status of the upstream reply when there was one and 500
\* otherwise; the message is the upstream error message, or the error's own
\* message when the error carries a status, or "Error processing image".
C13_UnknownFailureRelaysUpstreamStatus ==
    UnknownFailure =>
        IF req.endpoint \in Vision
        THEN /\ response.type = "json"
             /\ response.status = IF outcome.kind = "http" THEN outcome.status ELSE 500
             /\ response.body.error =
                   IF outcome.kind = "http" /\ outcome.errStatus
                   THEN Str(<<"Request failed with status code", outcome.status>>)
                   ELSE IF outcome.kind = "http"
                        THEN Or(outcome.message, Str("Error processing image"))
                        ELSE Str("Error processing image")
        ELSE response = ResSend(500, "Error processing request")

C13_Witness ==
    /\ Answered("scan-books")
    /\ outcome.kind = "http"
    /\ outcome.status = 429
    /\ ~outcome.errStatus
    /\ response.status = 429
    /\ response.body.error = Str("Rate limit reached")

\* C14: no outbound call is retried. A request calls the model API at most
\* once whatever the outcome; only /extract-book-titles calls the metadata
\* API, once per extracted title when title extraction succeeded and not at
\* all when it failed, and no lookup gets more than its one reply.
C14_NoRetry ==
    /\ modelCalls <= 1
    /\ outcome.kind # "none" => modelCalls = 1
    /\ (req.endpoint # "extract-book-titles" \/ outcome.kind = "none") => bookCalls = 0
    /\ (req.endpoint = "extract-book-titles" /\ outcome.kind # "none") =>
          /\ LET r == ExtractBookTitles(outcome)
             IN bookCalls = IF r.ok THEN Len(r.value) ELSE 0
          /\ Len(lookups) = bookCalls
          /\ Cardinality({i \in DOMAIN replies : replies[i] # NoReply}) <= bookCalls

C14_Witness ==
    /\ Answered("extract-book-titles")
    /\ Len(titles) = 2
    /\ \E i \in DOMAIN replies : replies[i].kind = "error"
    /\ bookCalls = 2
    /\ modelCalls = 1

\* lookup i was answered with no match: no volume in the reply
NoMatch_(i) ==
    /\ lookups[i].state = "fulfilled"
    /\ replies[i].kind = "ok"
    /\ Len(replies[i].items) = 0

\* C15: when the metadata lookup for a title returns no match, the enriched
\* record is exactly {title, found: false}, also for a reply that announces
\* a non-zero total but carries no items.
C15_NoMatchIsTitleAndNotFound ==
    \A i \in DOMAIN lookups :
        NoMatch_(i) => lookups[i].result = [title |-> lookups[i].title, found |-> FALSE]

\* the source description of the volume that answered lookup i
Source(i) == replies[i].items[1].description

\* lookup i was answered with a volume and its record is there
Found(i) ==
    /\ lookups[i].state = "fulfilled"
    /\ replies[i].kind = "ok"
    /\ Len(replies[i].items) > 0
    /\ lookups[i].result.found

\* C16 as stated: the description of a found record is at most 200
\* characters long, carries a truncation marker when the source was longer
\* than 200 characters, and is the source unchanged when that had 200
\* characters or fewer (an empty source aside, which is given as null).
C16_DescriptionAtMost200 ==
    \A i \in DOMAIN lookups :
        (Found(i) /\ Source(i).kind = "string") =>
            LET d == lookups[i].result.description
            IN IF Len(Source(i).chars) > DescLimit
               THEN /\ d.kind = "string"
                    /\ Len(d.chars) <= DescLimit
                    /\ SubSeq(d.chars, Len(d.chars) - 2, Len(d.chars)) = Ellipsis
               ELSE d = Source(i) \/ Len(Source(i).chars) = 0

\* C16: the description of a found record is the first 200 characters of the
\* source followed by the three-character marker "..." when the source is
\* longer than 200 characters (203 characters in all), the source unchanged
\* when it has 1 to 200 characters, and null when the source is absent or
\* empty.
C16_DescriptionIs200PlusMarker ==
    \A i \in DOMAIN lookups :
        Found(i) =>
            LET d == lookups[i].result.description
                s == Source(i)
            IN IF s.kind # "string" \/ Len(s.chars) = 0
               THEN d = Null
               ELSE IF Len(s.chars) <= DescLimit
               THEN d = s
               ELSE /\ d.kind = "string"
                    /\ Len(d.chars) = DescLimit + 3
                    /\ SubSeq(d.chars, 1, DescLimit) = SubSeq(s.chars, 1, DescLimit)
                    /\ SubSeq(d.chars, DescLimit + 1, DescLimit + 3) = Ellipsis

C16_Witness ==
    /\ Answered("extract-book-titles")
    /\ Found(1)
    /\ Len(Source(1).chars) = DescLimit + 1
    /\ Len(lookups[1].result.description.chars) = DescLimit + 3

\* C17: every inbound request receives exactly one response on every path,
\* a failure while reading or deleting the upload included: no request is
\* left in a handler that has ended without answering, an answered request
\* has one response, and none has two.
C17_ExactlyOneResponse ==
    /\ pc # "hung"
    /\ response.sent <= 1
    /\ pc = "done" => response.sent = 1

\* C18: for every request that uploaded a file, the temporary file has been
\* deleted when the response is sent, whatever the outcome, and on
\* /scan-books and /extract-book-titles before the model call is issued; no
\* temporary file outlives its request.
C18_TempFileDeletedAtResponse ==
    req.hasFile =>
        /\ pc \in {"done", "hung"} => tmpFile = "deleted"
        /\ modelCalls > 0 => tmpFile = "deleted"

====
